---- MODULE Spec2Model ----
(***************************************************************************)
(* Digital Frontdesk - Agent v1 (src/main.py): one chat turn as a state    *)
(* machine over the two in-memory stores SESSIONS and TICKETS.             *)
(*                                                                         *)
(* Text is a sequence of one-character strings, so that lower(), strip(),  *)
(* substring tests and split() are computed as Python computes them.       *)
(* Python's None is the string "None" for scalar fields; a contact slot is *)
(* <<>> for None and <<text>> for a string (a text is itself a sequence).  *)
(* Mutable Python objects that can be shared (the details list and the     *)
(* collected dict of a state) live in a heap and are named by reference.   *)
(***************************************************************************)
EXTENDS Naturals, Sequences, FiniteSets, TLC

None == "None"

(* ---------------------------------------------------------------------- *)
(* Text primitives (str.lower, str.strip, `x in t`, str.split(sep, 1),     *)
(* str.isdigit, str.isalpha) over the ASCII letters, digits and marks used *)
(* ---------------------------------------------------------------------- *)
LowerOf ==
    [A |-> "a", B |-> "b", C |-> "c", D |-> "d", E |-> "e", F |-> "f", G |-> "g",
     H |-> "h", I |-> "i", J |-> "j", K |-> "k", L |-> "l", M |-> "m", N |-> "n",
     O |-> "o", P |-> "p", Q |-> "q", R |-> "r", S |-> "s", T |-> "t", U |-> "u",
     V |-> "v", W |-> "w", X |-> "x", Y |-> "y", Z |-> "z"]

Digits == {"0", "1", "2", "3", "4", "5", "6", "7", "8", "9"}

isdigit(ch) == ch \in Digits

isalpha(ch) == ch \in DOMAIN LowerOf \/ ch \in {LowerOf[c] : c \in DOMAIN LowerOf}

lower(t) == [i \in 1..Len(t) |-> IF t[i] \in DOMAIN LowerOf THEN LowerOf[t[i]] ELSE t[i]]

strip(t) ==
    LET keep == {i \in 1..Len(t) : t[i] # " "}
        lo == CHOOSE i \in keep : \A j \in keep : i <= j
        hi == CHOOSE i \in keep : \A j \in keep : j <= i
    IN  IF keep = {} THEN <<>> ELSE SubSeq(t, lo, hi)

\* the start positions of sub in t
Occurrences(sub, t) ==
    {i \in 1..(Len(t) + 1) : i + Len(sub) - 1 <= Len(t) /\ SubSeq(t, i, i + Len(sub) - 1) = sub}

\* Python's `sub in t`
In(sub, t) == Occurrences(sub, t) # {}

\* Python's any(x in t for x in kws)
AnyIn(kws, t) == \E x \in kws : In(x, t)

\* Python's t.split(sep, 1): one part when sep does not occur, else the parts
\* before and after its first occurrence
split1(t, sep) ==
    LET occ == Occurrences(sep, t)
        at == CHOOSE i \in occ : \A j \in occ : i <= j
    IN  IF occ = {} THEN <<t>>
        ELSE <<SubSeq(t, 1, at - 1), SubSeq(t, at + Len(sep), Len(t))>>

\* Python's "".join(ch for ch in t if keep(ch)), for the set of kept characters
RECURSIVE FilterChars(_, _)
FilterChars(t, kept) ==
    IF t = <<>> THEN <<>>
    ELSE (IF Head(t) \in kept THEN <<Head(t)>> ELSE <<>>) \o FilterChars(Tail(t), kept)

(* ---------------------------------------------------------------------- *)
(* Keyword lists of classify_intent_and_procedure and of the best-time     *)
(* rule of update_collected_from_text                                      *)
(* ---------------------------------------------------------------------- *)
KW_MEDICAL_ADVICE ==
    { <<"a", "n", "t", "i", "b", "i", "o", "t", "i", "c">>,
      <<"a", "n", "t", "i", "b", "i", "o", "t", "i", "c", "s">>,
      <<"a", "m", "o", "x", "i", "c", "i", "l", "l", "i", "n">>,
      <<"p", "e", "n", "i", "c", "i", "l", "l", "i", "n">> }

KW_EMERGENCY ==
    { <<"e", "m", "e", "r", "g", "e", "n", "c", "y">>,
      <<"s", "e", "v", "e", "r", "e", " ", "p", "a", "i", "n">>,
      <<"u", "n", "b", "e", "a", "r", "a", "b", "l", "e", " ", "p", "a", "i", "n">>,
      <<"b", "l", "e", "e", "d", "i", "n", "g">>,
      <<"s", "w", "o", "l", "l", "e", "n">>,
      <<"s", "w", "e", "l", "l", "i", "n", "g">>,
      <<"u", "r", "g", "e", "n", "t">> }

KW_BOOK_APPOINTMENT ==
    { <<"b", "o", "o", "k">>,
      <<"b", "o", "o", "k", "i", "n", "g">>,
      <<"a", "p", "p", "o", "i", "n", "t", "m", "e", "n", "t">>,
      <<"m", "a", "k", "e", " ", "a", "n", " ", "a", "p", "p", "o", "i", "n", "t", "m", "e", "n", "t">>,
      <<"s", "c", "h", "e", "d", "u", "l", "e">>,
      <<"s", "e", "t", " ", "a", "n", " ", "a", "p", "p", "o", "i", "n", "t", "m", "e", "n", "t">> }

KW_OPENING_HOURS ==
    { <<"o", "p", "e", "n", "i", "n", "g", " ", "h", "o", "u", "r", "s">>,
      <<"o", "p", "e", "n", " ", "h", "o", "u", "r", "s">>,
      <<"w", "o", "r", "k", "i", "n", "g", " ", "h", "o", "u", "r", "s">>,
      <<"b", "u", "s", "i", "n", "e", "s", "s", " ", "h", "o", "u", "r", "s">>,
      <<"w", "h", "e", "n", " ", "a", "r", "e", " ", "y", "o", "u", " ", "o", "p", "e", "n">>,
      <<"w", "h", "e", "n", " ", "d", "o", " ", "y", "o", "u", " ", "o", "p", "e", "n">>,
      <<"w", "h", "e", "n", " ", "d", "o", " ", "y", "o", "u", " ", "c", "l", "o", "s", "e">>,
      <<"o", "p", "e", "n", "i", "n", "g", " ", "t", "i", "m", "e">>,
      <<"c", "l", "o", "s", "i", "n", "g", " ", "t", "i", "m", "e">>,
      <<"h", "o", "u", "r", "s">> }

KW_INSURANCE ==
    { <<"i", "n", "s", "u", "r", "a", "n", "c", "e">>,
      <<"p", "u", "b", "l", "i", "c", " ", "i", "n", "s", "u", "r", "a", "n", "c", "e">>,
      <<"p", "r", "i", "v", "a", "t", "e", " ", "p", "a", "y">>,
      <<"p", "r", "i", "v", "a", "t", "e", " ", "i", "n", "s", "u", "r", "a", "n", "c", "e">>,
      <<"c", "o", "v", "e", "r", "a", "g", "e">>,
      <<"i", "n", "s", "u", "r", "e", "d">> }

KW_PRICING ==
    { <<"p", "r", "i", "c", "e">>,
      <<"c", "o", "s", "t">>,
      <<"h", "o", "w", " ", "m", "u", "c", "h">>,
      <<"p", "r", "i", "c", "i", "n", "g">>,
      <<"f", "e", "e">>,
      <<"r", "a", "t", "e", "s">>,
      <<"q", "u", "o", "t", "e">> }

KW_SERVICES ==
    { <<"d", "o", " ", "y", "o", "u", " ", "o", "f", "f", "e", "r">>,
      <<"s", "e", "r", "v", "i", "c", "e", "s">>,
      <<"w", "h", "a", "t", " ", "d", "o", " ", "y", "o", "u", " ", "d", "o">>,
      <<"o", "f", "f", "e", "r">>,
      <<"t", "r", "e", "a", "t", "m", "e", "n", "t", "s">>,
      <<"p", "r", "o", "c", "e", "d", "u", "r", "e", "s">> }

KW_implant ==
    { <<"i", "m", "p", "l", "a", "n", "t">>,
      <<"i", "m", "p", "l", "a", "n", "t", "s">> }

KW_cleaning ==
    { <<"c", "l", "e", "a", "n", "i", "n", "g">>,
      <<"s", "c", "a", "l", "e">>,
      <<"s", "c", "a", "l", "i", "n", "g">> }

KW_filling ==
    { <<"f", "i", "l", "l", "i", "n", "g">>,
      <<"f", "i", "l", "l", "i", "n", "g", "s">>,
      <<"c", "a", "v", "i", "t", "y">> }

KW_root_canal ==
    { <<"r", "o", "o", "t", " ", "c", "a", "n", "a", "l">>,
      <<"e", "n", "d", "o", "d", "o", "n", "t">> }

KW_crown_bridge ==
    { <<"c", "r", "o", "w", "n">>,
      <<"c", "r", "o", "w", "n", "s">>,
      <<"b", "r", "i", "d", "g", "e">>,
      <<"b", "r", "i", "d", "g", "e", "s">> }

KW_consultation ==
    { <<"c", "h", "e", "c", "k", "-", "u", "p">>,
      <<"c", "h", "e", "c", "k", "u", "p">>,
      <<"c", "o", "n", "s", "u", "l", "t">>,
      <<"c", "o", "n", "s", "u", "l", "t", "a", "t", "i", "o", "n">>,
      <<"e", "x", "a", "m", "i", "n", "a", "t", "i", "o", "n">> }

KW_kids_dentistry ==
    { <<"k", "i", "d", "s">>,
      <<"c", "h", "i", "l", "d">>,
      <<"c", "h", "i", "l", "d", "r", "e", "n">>,
      <<"p", "e", "d", "i", "a", "t", "r", "i", "c">> }

KW_emergency_consult ==
    { <<"t", "o", "o", "t", "h", "a", "c", "h", "e">>,
      <<"p", "a", "i", "n">>,
      <<"e", "m", "e", "r", "g", "e", "n", "c", "y">> }

KW_best_time ==
    { <<"m", "o", "r", "n", "i", "n", "g">>,
      <<"a", "f", "t", "e", "r", "n", "o", "o", "n">>,
      <<"e", "v", "e", "n", "i", "n", "g">>,
      <<"t", "o", "m", "o", "r", "r", "o", "w">>,
      <<"t", "o", "d", "a", "y">>,
      <<"m", "o", "n", "d", "a", "y">>,
      <<"t", "u", "e", "s", "d", "a", "y">>,
      <<"w", "e", "d", "n", "e", "s", "d", "a", "y">>,
      <<"t", "h", "u", "r", "s", "d", "a", "y">>,
      <<"f", "r", "i", "d", "a", "y">>,
      <<"s", "a", "t", "u", "r", "d", "a", "y">>,
      <<"s", "u", "n", "d", "a", "y">> }

(* ---------------------------------------------------------------------- *)
(* The texts callers send                                                  *)
(* ---------------------------------------------------------------------- *)
U_blank == <<" ">>

U_hello == <<"h", "e", "l", "l", "o">>

U_book == <<"b", "o", "o", "k", " ", "a", " ", "v", "i", "s", "i", "t">>

U_name == <<"m", "y", " ", "n", "a", "m", "e", " ", "i", "s", " ", "A", "l", "i">>

U_name2 == <<"i", " ", "a", "m", " ", "B", "o", "b">>

U_NAME == <<"M", "Y", " ", "N", "A", "M", "E", " ", "I", "S", " ", "A", "L", "I">>

U_phone == <<"1", "2", "3", "4", "5", "6", "7", "8">>

U_time == <<"t", "o", "m", "o", "r", "r", "o", "w">>

U_reach == <<"+", "4", "9", " ", "1", "2", "3", "4", "5", "6", "7", "8", " ", "t", "o", "d", "a", "y">>

U_reach2 == <<"0", "9", "8", "7", "6", "5", "4", "3", "2", "1", " ", "f", "r", "i", "d", "a", "y">>

U_hours == <<"o", "p", "e", "n", "i", "n", "g", " ", "h", "o", "u", "r", "s">>

U_urgent == <<"u", "r", "g", "e", "n", "t">>

U_antibiotic == <<"a", "n", "t", "i", "b", "i", "o", "t", "i", "c">>

U_price == <<"p", "r", "i", "c", "e">>

U_implant_cost == <<"i", "m", "p", "l", "a", "n", "t", " ", "c", "o", "s", "t">>

U_insurance == <<"i", "n", "s", "u", "r", "e", "d">>

U_services == <<"o", "f", "f", "e", "r">>

U_hours_today == <<"h", "o", "u", "r", "s", " ", "t", "o", "d", "a", "y">>

U_I_AM_URGENT == <<"I", " ", "A", "M", " ", "U", "R", "G", "E", "N", "T">>

U_book_hours ==
    <<"b", "o", "o", "k", " ", "a", "p", "p", "o", "i", "n", "t", "m", "e", "n", "t", " ", "h", "o", "u", "r", "s">>

U_antibiotic_booking_price ==
    <<"a", "n", "t", "i", "b", "i", "o", "t", "i", "c", " ", "b", "o", "o", "k", "i", "n", "g", " ", "p", "r", "i", "c", "e">>

U_urgent_implant_cost ==
    <<"u", "r", "g", "e", "n", "t", " ", "i", "m", "p", "l", "a", "n", "t", " ", "c", "o", "s", "t">>

U_insurance_cost == <<"i", "n", "s", "u", "r", "a", "n", "c", "e", " ", "c", "o", "s", "t">>

U_offer_price == <<"o", "f", "f", "e", "r", " ", "p", "r", "i", "c", "e">>

U_hours_insured == <<"h", "o", "u", "r", "s", " ", "i", "n", "s", "u", "r", "e", "d">>

U_pain == <<"p", "a", "i", "n">>

AllUtterances ==
    {U_blank, U_hello, U_book, U_name, U_name2, U_NAME,
     U_phone, U_time, U_reach, U_reach2, U_hours, U_urgent,
     U_antibiotic, U_price, U_implant_cost, U_insurance, U_services,
     U_hours_today, U_I_AM_URGENT, U_book_hours, U_antibiotic_booking_price,
     U_urgent_implant_cost, U_insurance_cost, U_offer_price, U_hours_insured, U_pain}

(* ---------------------------------------------------------------------- *)
(* NLU                                                                     *)
(* ---------------------------------------------------------------------- *)
\* the classifier with opening hours ranked ahead of booking
classify_hours_before_booking(text) ==
    LET t == strip(lower(text))
        intent ==
            IF AnyIn(KW_MEDICAL_ADVICE, t) THEN "MEDICAL_ADVICE"
            ELSE IF AnyIn(KW_EMERGENCY, t) THEN "EMERGENCY"
            ELSE IF AnyIn(KW_OPENING_HOURS, t) THEN "OPENING_HOURS"
            ELSE IF AnyIn(KW_BOOK_APPOINTMENT, t) THEN "BOOK_APPOINTMENT"
            ELSE IF AnyIn(KW_INSURANCE, t) THEN "INSURANCE"
            ELSE IF AnyIn(KW_PRICING, t) THEN "PRICING"
            ELSE IF AnyIn(KW_SERVICES, t) THEN "SERVICES"
            ELSE None
        procedure ==
            IF AnyIn(KW_implant, t) THEN "implant"
            ELSE IF AnyIn(KW_cleaning, t) THEN "cleaning"
            ELSE IF AnyIn(KW_filling, t) THEN "filling"
            ELSE IF AnyIn(KW_root_canal, t) THEN "root_canal"
            ELSE IF AnyIn(KW_crown_bridge, t) THEN "crown_bridge"
            ELSE IF AnyIn(KW_consultation, t) THEN "consultation"
            ELSE IF AnyIn(KW_kids_dentistry, t) THEN "kids_dentistry"
            ELSE IF AnyIn(KW_emergency_consult, t) THEN "emergency_consult"
            ELSE None
    IN  [intent |-> intent, procedure |-> procedure]

classify_intent_and_procedure(text) ==
    LET t == strip(lower(text))
        intent ==
            IF AnyIn(KW_MEDICAL_ADVICE, t) THEN "MEDICAL_ADVICE"
            ELSE IF AnyIn(KW_EMERGENCY, t) THEN "EMERGENCY"
            ELSE IF AnyIn(KW_BOOK_APPOINTMENT, t) THEN "BOOK_APPOINTMENT"
            ELSE IF AnyIn(KW_OPENING_HOURS, t) THEN "OPENING_HOURS"
            ELSE IF AnyIn(KW_INSURANCE, t) THEN "INSURANCE"
            ELSE IF AnyIn(KW_PRICING, t) THEN "PRICING"
            ELSE IF AnyIn(KW_SERVICES, t) THEN "SERVICES"
            ELSE None
        procedure ==
            IF AnyIn(KW_implant, t) THEN "implant"
            ELSE IF AnyIn(KW_cleaning, t) THEN "cleaning"
            ELSE IF AnyIn(KW_filling, t) THEN "filling"
            ELSE IF AnyIn(KW_root_canal, t) THEN "root_canal"
            ELSE IF AnyIn(KW_crown_bridge, t) THEN "crown_bridge"
            ELSE IF AnyIn(KW_consultation, t) THEN "consultation"
            ELSE IF AnyIn(KW_kids_dentistry, t) THEN "kids_dentistry"
            ELSE IF AnyIn(KW_emergency_consult, t) THEN "emergency_consult"
            ELSE None
    IN  [intent |-> intent, procedure |-> procedure]

(* ---------------------------------------------------------------------- *)
(* Contact slots.  A slot is <<>> (None) or <<text>>.                      *)
(* ---------------------------------------------------------------------- *)
Slots == <<"name", "phone", "best_time">>

MaxNameLen == 60

MinPhoneDigits == 8

\* Python truthiness of a slot value: None and "" are falsy
Truthy(slot) == slot # <<>> /\ slot[1] # <<>>

NAME_IS == <<"m", "y", " ", "n", "a", "m", "e", " ", "i", "s">>

I_AM == <<"i", " ", "a", "m", " ">>

\* What update_collected_from_text reads off the text alone.  raises: the
\* name rule's split(...)[1] is an IndexError, since the trigger is looked for
\* in the lowercased text and the separator in the original one.
scan_text(text) ==
    LET t == strip(text)
        low == lower(t)
        parts == IF In(NAME_IS, low) THEN split1(t, <<"i", "s">>)
                 ELSE split1(t, <<"a", "m">>)
        name == strip(parts[2])
        digits == FilterChars(t, Digits \cup {"+"})
    IN  [name_rule |-> In(NAME_IS, low) \/ In(I_AM, low),
         raises |-> Len(parts) < 2,
         name |-> IF Len(parts) < 2 THEN <<>> ELSE name,
         name_ok |-> /\ Len(parts) = 2
                     /\ 1 <= Len(name)
                     /\ Len(name) <= MaxNameLen
                     /\ \A i \in 1..Len(name) :
                           isalpha(name[i]) \/ name[i] \in {" ", "-", "'"},
         digits |-> digits,
         phone_ok |-> Len(FilterChars(digits, Digits)) >= MinPhoneDigits,
         time_rule |-> AnyIn(KW_best_time, low),
         best_time |-> strip(t)]

\* classify_intent_and_procedure and scan_text of every text a caller sends,
\* as chat passes it on (stripped)
Messages == {strip(u) : u \in AllUtterances}

NLU == [msg \in Messages |-> classify_intent_and_procedure(msg)]

Scan == [msg \in Messages |-> scan_text(msg)]

\* update_collected_from_text without its `is None` tests: every rule that
\* finds a candidate writes it
update_collected_overwriting(c, text) ==
    LET f == Scan[text]
        c1 == IF f.name_rule /\ f.name_ok THEN [c EXCEPT !.name = <<f.name>>] ELSE c
        c2 == IF f.phone_ok THEN [c1 EXCEPT !.phone = <<f.digits>>] ELSE c1
        c3 == IF f.time_rule THEN [c2 EXCEPT !.best_time = <<f.best_time>>] ELSE c2
    IN  IF f.name_rule /\ f.raises THEN [raised |-> TRUE, collected |-> c]
        ELSE [raised |-> FALSE, collected |-> c3]

\* update_collected_from_text on the collected dict c: the dict afterwards, or
\* raised, with nothing written
update_collected_from_text(c, text) ==
    LET f == Scan[text]
        name_rule == c.name = <<>> /\ f.name_rule
        raised == name_rule /\ f.raises
        c1 == IF name_rule /\ f.name_ok THEN [c EXCEPT !.name = <<f.name>>] ELSE c
        c2 == IF c1.phone = <<>> /\ f.phone_ok THEN [c1 EXCEPT !.phone = <<f.digits>>] ELSE c1
        c3 == IF c2.best_time = <<>> /\ f.time_rule
              THEN [c2 EXCEPT !.best_time = <<f.best_time>>] ELSE c2
    IN  IF raised THEN [raised |-> TRUE, collected |-> c]
        ELSE [raised |-> FALSE, collected |-> c3]

(* ---------------------------------------------------------------------- *)
(* Ticketing                                                               *)
(* ---------------------------------------------------------------------- *)
\* str.title() of a procedure tag
Title ==
    [implant |-> "Implant", cleaning |-> "Cleaning", filling |-> "Filling",
     root_canal |-> "Root_Canal", crown_bridge |-> "Crown_Bridge",
     consultation |-> "Consultation", kids_dentistry |-> "Kids_Dentistry",
     emergency_consult |-> "Emergency_Consult"]

infer_topic(state) ==
    LET intent == state.intent
        proc == state.procedure
    IN  IF intent = "OPENING_HOURS" THEN "Opening hours"
        ELSE IF intent = "PRICING" /\ proc # None THEN Title[proc] \o " pricing"
        ELSE IF intent = "INSURANCE" /\ proc # None THEN "Insurance coverage for " \o Title[proc]
        ELSE IF intent = "INSURANCE" THEN "Insurance question"
        ELSE IF intent = "EMERGENCY" THEN "Emergency / urgent issue"
        ELSE IF intent = "MEDICAL_ADVICE" THEN "Medical advice request (needs clinician)"
        ELSE IF intent = "SERVICES" THEN "Services inquiry"
        ELSE "General inquiry"

SummaryFacts == 3

TicketFacts == 10

\* list[-n:]
LastN(list, n) == IF Len(list) <= n THEN list ELSE SubSeq(list, Len(list) - n + 1, Len(list))

\* The lines of the summary string, one field per line; a line that is left
\* out is None (<<>> for the contact line and the "User said" line).
build_summary(state, heap) ==
    LET c == heap[state.collected].collected
        details == heap[state.details].details
    IN  [intent |-> state.intent,
         procedure |-> state.procedure,
         topic |-> state.topic,
         contact |-> IF Truthy(c.name) \/ Truthy(c.phone) \/ Truthy(c.best_time)
                     THEN <<c>> ELSE <<>>,
         said |-> LastN(details, SummaryFacts)]

\* TICKETS is a dict in insertion order: a sequence of ticket records, each
\* under its ticket_id.
TicketIndex(tickets, ticket_id) ==
    {i \in 1..Len(tickets) : tickets[i].ticket_id = ticket_id}

\* TICKETS[ticket_id] = ticket
PutTicket(tickets, ticket) ==
    LET at == TicketIndex(tickets, ticket.ticket_id)
    IN  IF at = {} THEN Append(tickets, ticket)
        ELSE [i \in 1..Len(tickets) |-> IF i \in at THEN ticket ELSE tickets[i]]

\* the loop of upsert_ticket comparing the wrong key: it finds no ticket
existing_ticket_never_found(tickets, session_id) == None

\* the loop of upsert_ticket: the id of the first ticket of the session
existing_ticket(tickets, session_id) ==
    LET hits == {i \in 1..Len(tickets) : tickets[i].session_id = session_id}
        first == CHOOSE i \in hits : \A j \in hits : i <= j
    IN  IF hits = {} THEN None ELSE tickets[first].ticket_id

\* the ticket dict that upsert_ticket builds under ticket_id
ticket_of(tickets, heap, session_id, state, ticket_id, now) ==
    LET old == TicketIndex(tickets, ticket_id)
    IN  [ticket_id |-> ticket_id,
         session_id |-> session_id,
         created_at |-> IF old # {} THEN tickets[CHOOSE i \in old : TRUE].created_at ELSE now,
         updated_at |-> now,
         intent |-> state.intent,
         procedure |-> state.procedure,
         topic |-> IF state.topic # None THEN state.topic ELSE infer_topic(state),
         summary |-> build_summary(state, heap),
         contact |-> state.collected,
         conversation_facts |-> LastN(heap[state.details].details, TicketFacts),
         status |-> IF state.step # "RESOLVED" THEN "open" ELSE "closed"]

\* upsert_ticket(session_id, state): the ticket id and TICKETS afterwards;
\* uuid is the value str(uuid.uuid4())[:8] would give, now the clock's reading
upsert_ticket(tickets, heap, session_id, state, uuid, now) ==
    LET existing == existing_ticket(tickets, session_id)
        ticket_id == IF existing # None THEN existing ELSE uuid
    IN  [ticket_id |-> ticket_id,
         tickets |-> PutTicket(tickets, ticket_of(tickets, heap, session_id, state,
                                                  ticket_id, now))]
(* ---------------------------------------------------------------------- *)
(* Tools and the agent runner                                              *)
(* ---------------------------------------------------------------------- *)
\* Tools.notify_staff(session_id, state, ticket_id=None, **kwargs)
notify_staff(params) ==
    [ok |-> TRUE,
     data |-> [notified |-> TRUE,
               ticket_id |-> IF "ticket_id" \in DOMAIN params THEN params.ticket_id ELSE None]]

\* Tools.handoff_if_needed
handoff_if_needed == [ok |-> TRUE, data |-> [handoff_checked |-> TRUE]]

\* run_actions giving up at the first action type it does not know
RECURSIVE run_actions_stop_at_unknown(_, _, _, _, _, _, _)
run_actions_stop_at_unknown(tickets, heap, session_id, state, actions, uuid, now) ==
    IF actions = <<>> THEN [executed |-> <<>>, tickets |-> tickets]
    ELSE
        LET a == Head(actions)
            typ == a.type
            up == upsert_ticket(tickets, heap, session_id, state, uuid, now)
            res == IF typ = "upsert_ticket" THEN [ok |-> TRUE, data |-> [ticket_id |-> up.ticket_id]]
                   ELSE IF typ = "notify_staff" THEN notify_staff(a.params)
                   ELSE IF typ = "handoff_if_needed" THEN handoff_if_needed
                   ELSE [ok |-> FALSE, data |-> [error |-> "Unknown action type: " \o typ]]
            after == IF typ = "upsert_ticket" THEN up.tickets ELSE tickets
            rest == IF res.ok
                    THEN run_actions_stop_at_unknown(after, heap, session_id, state,
                                                     Tail(actions), uuid, now)
                    ELSE [executed |-> <<>>, tickets |-> after]
        IN  [executed |-> <<[type |-> typ, ok |-> res.ok, data |-> res.data]>> \o rest.executed,
             tickets |-> rest.tickets]

\* AgentRunner.run_actions: the results in order, and TICKETS afterwards
RECURSIVE run_actions(_, _, _, _, _, _, _)
run_actions(tickets, heap, session_id, state, actions, uuid, now) ==
    IF actions = <<>> THEN [executed |-> <<>>, tickets |-> tickets]
    ELSE
        LET a == Head(actions)
            typ == a.type
            up == upsert_ticket(tickets, heap, session_id, state, uuid, now)
            res == IF typ = "upsert_ticket" THEN [ok |-> TRUE, data |-> [ticket_id |-> up.ticket_id]]
                   ELSE IF typ = "notify_staff" THEN notify_staff(a.params)
                   ELSE IF typ = "handoff_if_needed" THEN handoff_if_needed
                   ELSE [ok |-> FALSE, data |-> [error |-> "Unknown action type: " \o typ]]
            after == IF typ = "upsert_ticket" THEN up.tickets ELSE tickets
            rest == run_actions(after, heap, session_id, state, Tail(actions), uuid, now)
        IN  [executed |-> <<[type |-> typ, ok |-> res.ok, data |-> res.data]>> \o rest.executed,
             tickets |-> rest.tickets]

(* ---------------------------------------------------------------------- *)
(* Planner                                                                 *)
(* ---------------------------------------------------------------------- *)
Action(type) == [type |-> type, params |-> <<>>]

\* plan_actions without the exception for opening hours
plan_actions_ticket_for_hours(state, heap) ==
    LET intent == state.intent
    IN  <<Action("upsert_ticket")>>
        \o (IF intent \in {"EMERGENCY", "MEDICAL_ADVICE"}
            THEN <<Action("notify_staff"), Action("handoff_if_needed")>> ELSE <<>>)
        \o (IF state.step = "READY_TO_HANDOFF" THEN <<Action("notify_staff")>> ELSE <<>>)

\* plan_actions with the escalation planned ahead of the ticket
plan_actions_notify_first(state, heap) ==
    LET intent == state.intent
    IN  (IF intent \in {"EMERGENCY", "MEDICAL_ADVICE"}
         THEN <<Action("notify_staff"), Action("handoff_if_needed")>> ELSE <<>>)
        \o (IF intent # "OPENING_HOURS" THEN <<Action("upsert_ticket")>> ELSE <<>>)
        \o (IF state.step = "READY_TO_HANDOFF" THEN <<Action("notify_staff")>> ELSE <<>>)

plan_actions(state, heap) ==
    LET intent == state.intent
        proc == state.procedure
        collected == heap[state.collected].collected
        has_contact_signal == \E k \in {"name", "phone", "best_time"} : Truthy(collected[k])
        meaningful == \/ intent # None
                      \/ proc # None
                      \/ (state.topic # None /\ state.topic # "")
                      \/ heap[state.details].details # <<>>
    IN  (IF intent # "OPENING_HOURS" /\ (meaningful \/ has_contact_signal)
         THEN <<Action("upsert_ticket")>> ELSE <<>>)
        \o (IF intent \in {"EMERGENCY", "MEDICAL_ADVICE"}
            THEN <<Action("notify_staff"), Action("handoff_if_needed")>> ELSE <<>>)
        \o (IF state.step = "READY_TO_HANDOFF" THEN <<Action("notify_staff")>> ELSE <<>>)

(* ---------------------------------------------------------------------- *)
(* Reply policy.  A reply is the name of the returned text and, for the    *)
(* two texts that quote it, the procedure.                                 *)
(* ---------------------------------------------------------------------- *)
Reply(text) == [text |-> text, proc |-> None]

\* next_reply(state, user_text): the step it leaves in the state and the reply
next_reply(state, heap) ==
    LET intent == state.intent
        proc == state.procedure
        c == heap[state.collected].collected
        missing == SelectSeq(Slots, LAMBDA k : ~Truthy(c[k]))
    IN  IF intent = "OPENING_HOURS" THEN [step |-> "TRIAGE", reply |-> Reply("opening hours")]
        ELSE IF intent = "MEDICAL_ADVICE"
             THEN [step |-> "LIMITED_RESPONSE", reply |-> Reply("no advice on antibiotics")]
        ELSE IF intent = "EMERGENCY"
             THEN [step |-> "READY_TO_HANDOFF", reply |-> Reply("treat as urgent")]
        ELSE IF intent = "INSURANCE"
             THEN IF proc = None
                  THEN [step |-> "TRIAGE", reply |-> Reply("which service")]
                  ELSE [step |-> "TRIAGE", reply |-> [text |-> "coverage varies", proc |-> proc]]
        ELSE IF intent = "PRICING"
             THEN IF proc = None
                  THEN [step |-> "TRIAGE", reply |-> Reply("which treatment")]
                  ELSE [step |-> "COLLECT_CONTACT",
                        reply |-> [text |-> "pricing depends", proc |-> proc]]
        ELSE IF intent = "SERVICES" THEN [step |-> "TRIAGE", reply |-> Reply("we offer")]
        ELSE IF state.step \in {"COLLECT_CONTACT", "READY_TO_HANDOFF"}
             THEN IF missing # <<>>
                  THEN [step |-> state.step,
                        reply |-> Reply(CASE missing[1] = "name" -> "what is your name"
                                          [] missing[1] = "phone" -> "best phone number"
                                          [] missing[1] = "best_time" -> "best time to call")]
                  ELSE [step |-> "READY_TO_HANDOFF", reply |-> Reply("pass this to the team")]
        ELSE [step |-> "TRIAGE", reply |-> Reply("how can I help")]

(* ---------------------------------------------------------------------- *)
(* State                                                                   *)
(* ---------------------------------------------------------------------- *)
VARIABLES
    heap,       \* the details list and collected dict objects, by reference
    SESSIONS,   \* session_id -> state dict
    TICKETS,    \* ticket dicts in insertion order
    clock,      \* what now_iso() reads, in seconds
    response,   \* what the last call of chat gave its caller
    submitted,  \* the actions the last call handed to the executor
    threads,    \* per session, the call of chat in progress: where it is and
                \* its local variables
    history     \* per session, the utterances of its turns so far (a record
                \* of the run, not program state)

vars == <<heap, SESSIONS, TICKETS, clock, response, submitted, threads, history>>

\* The module-level dict.  Its details list and collected dict are the heap
\* objects at reference 1.
DEFAULT_STATE ==
    [step |-> "TRIAGE", intent |-> None, procedure |-> None, topic |-> None,
     details |-> 1, collected |-> 1, created_at |-> None, updated_at |-> None]

EmptyCollected == [name |-> <<>>, phone |-> <<>>, best_time |-> <<>>]

\* A state as its caller sees it (the JSON of the dict): nested objects by value
Json(state, h) ==
    [state EXCEPT !.details = h[state.details].details,
                  !.collected = h[state.collected].collected]

\* get_or_init_state: the state dict to work on, whether it is the dict that
\* SESSIONS holds, and the heap.  prior_state is <<>> (None) or <<dict>>; the
\* dict is a request body, with a list and a dict of its own.
\* dict(DEFAULT_STATE) is a shallow copy: it shares DEFAULT_STATE's list and
\* dict.
get_or_init_state(session_id, prior_state) ==
    IF prior_state # <<>>
    THEN [state |-> [prior_state[1] EXCEPT !.details = Len(heap) + 1, !.collected = Len(heap) + 1],
          stored |-> FALSE,
          heap |-> Append(heap, [details |-> prior_state[1].details,
                                 collected |-> prior_state[1].collected])]
    ELSE IF session_id \in DOMAIN SESSIONS
    THEN [state |-> SESSIONS[session_id], stored |-> TRUE, heap |-> heap]
    ELSE [state |-> [DEFAULT_STATE EXCEPT !.created_at = clock, !.updated_at = clock],
          stored |-> FALSE,
          heap |-> heap]

\* save_state
save_state(session_id, state) ==
    (session_id :> [state EXCEPT !.updated_at = clock]) @@ SESSIONS

(* ---------------------------------------------------------------------- *)
(* The chat endpoint                                                       *)
(* ---------------------------------------------------------------------- *)
\* "Pull ticket_id if created": the id of the last successful upsert_ticket
RECURSIVE pull_ticket_id(_)
pull_ticket_id(executed) ==
    IF executed = <<>> THEN None
    ELSE LET e == executed[Len(executed)]
         IN  IF e.type = "upsert_ticket" /\ e.ok THEN e.data.ticket_id
             ELSE pull_ticket_id(SubSeq(executed, 1, Len(executed) - 1))

\* "If notify_staff ran, attach ticket_id for traceability"
attach_ticket_id(executed, ticket_id) ==
    [i \in 1..Len(executed) |->
        LET e == executed[i]
        IN  IF /\ e.type = "notify_staff"
               /\ e.ok
               /\ ticket_id # None
               /\ "ticket_id" \notin DOMAIN e.data
            THEN [e EXCEPT !.data = ("ticket_id" :> ticket_id) @@ e.data]
            ELSE e]

NoReply == [text |-> None, proc |-> None]

\* the NLU update without its tests: the turn's result is written as it is
nlu_update_unconditional(state, nlu) ==
    [state EXCEPT !.intent = nlu.intent, !.procedure = nlu.procedure]

\* "NLU update": a detected intent or procedure replaces the recorded one
nlu_update(state, nlu) ==
    [state EXCEPT !.intent = IF nlu.intent # None THEN nlu.intent ELSE @,
                  !.procedure = IF nlu.procedure # None THEN nlu.procedure ELSE @]

\* POST /chat.  uuid is what uuid4 gives should a ticket be created.  When
\* update_collected_from_text raises, the call ends there with what had been
\* written in place until then and the caller gets no ChatResponse.
\* (\E x \in {e} names the value of e, as an assignment does.)
chat(session_id, user_message, prior_state, uuid) ==
    \E g \in {get_or_init_state(session_id, prior_state)}, msg \in {strip(user_message)} :
    \E h1 \in {IF msg # <<>>
               THEN [g.heap EXCEPT ![g.state.details].details = Append(@, msg)]
               ELSE g.heap} :
    \E s1 \in {nlu_update(g.state, NLU[msg])} :
    \E s2 \in {[s1 EXCEPT !.topic = infer_topic(s1)]} :
    \E upd \in {update_collected_from_text(h1[s2.collected].collected, msg)} :
        /\ history' = [history EXCEPT ![session_id] = Append(@, user_message)]
        /\ UNCHANGED <<clock, threads>>
        /\ IF upd.raised
           THEN /\ heap' = h1
                /\ SESSIONS' = IF g.stored THEN [SESSIONS EXCEPT ![session_id] = s2]
                               ELSE SESSIONS
                /\ UNCHANGED TICKETS
                /\ submitted' = <<>>
                /\ response' = [session_id |-> session_id, raised |-> TRUE,
                                reply_text |-> NoReply, actions_executed |-> <<>>,
                                ticket_id |-> None]
           ELSE \E h2 \in {[h1 EXCEPT ![s2.collected].collected = upd.collected]} :
                \E nr \in {next_reply(s2, h2)} :
                \E s3 \in {[s2 EXCEPT !.step = nr.step]} :
                \E planned_actions \in {plan_actions(s3, h2)} :
                \E run \in {run_actions(TICKETS, h2, session_id, s3, planned_actions,
                                        uuid, clock)} :
                \E ticket_id \in {pull_ticket_id(run.executed)} :
                    /\ heap' = h2
                    /\ SESSIONS' = save_state(session_id, s3)
                    /\ TICKETS' = run.tickets
                    /\ submitted' = planned_actions
                    /\ response' = [session_id |-> session_id, raised |-> FALSE,
                                    reply_text |-> nr.reply,
                                    actions_executed |->
                                        attach_ticket_id(run.executed, ticket_id),
                                    ticket_id |-> ticket_id]

\* no call in progress
Idle ==
    [pc |-> "idle", state |-> DEFAULT_STATE, reply_text |-> NoReply,
     planned_actions |-> <<>>, existing |-> None, ticket_id |-> None]

\* a second passes
Tick ==
    /\ clock' = clock + 1
    /\ UNCHANGED <<heap, SESSIONS, TICKETS, response, submitted, threads, history>>

(* ---------------------------------------------------------------------- *)
(* Callers                                                                 *)
(* ---------------------------------------------------------------------- *)
Sessions == {"s1", "s2"}

TicketIds == {"a1b2c3d4", "e5f6a7b8", "c9d0e1f2"}

\* str(uuid.uuid4())[:8]: any id that no ticket has
uuid4 == {id \in TicketIds : \A i \in 1..Len(TICKETS) : TICKETS[i].ticket_id # id}

\* A caller sends no prior_state, or the state of its session as last saved
PriorStates(session_id) ==
    {<<>>} \cup (IF session_id \in DOMAIN SESSIONS
                 THEN {<<Json(SESSIONS[session_id], heap)>>} ELSE {})

Turns == Len(history["s1"]) + Len(history["s2"])

Init ==
    /\ heap = <<[details |-> <<>>, collected |-> EmptyCollected]>>
    /\ SESSIONS = <<>>
    /\ TICKETS = <<>>
    /\ clock = 0
    /\ response = [session_id |-> None, raised |-> FALSE, reply_text |-> NoReply,
                   actions_executed |-> <<>>, ticket_id |-> None]
    /\ submitted = <<>>
    /\ threads = [s \in Sessions |-> Idle]
    /\ history = [s \in Sessions |-> <<>>]

MaxTurns == 2

MaxClock == 1

Utterances ==
    {U_blank, U_name, U_name2, U_NAME, U_reach, U_reach2, U_hours, U_urgent, U_implant_cost}

\* any session, with or without a prior_state
Turn ==
    /\ Turns < MaxTurns
    /\ \E session_id \in Sessions, user_message \in Utterances :
          \E prior_state \in PriorStates(session_id), uuid \in uuid4 :
             chat(session_id, user_message, prior_state, uuid)

Second ==
    /\ clock < MaxClock
    /\ Tick

Next == Turn \/ Second

Spec == Init /\ [][Next]_vars

(* A single caller going through a booking conversation, stored state only *)
MaxBookingTurns == 4

BookingUtterances == {U_book, U_name, U_phone, U_time, U_implant_cost}

BookingTurn ==
    /\ Turns < MaxBookingTurns
    /\ \E user_message \in BookingUtterances, uuid \in uuid4 :
          chat("s1", user_message, <<>>, uuid)

BookingNext == BookingTurn \/ Second

SpecBooking == Init /\ [][BookingNext]_vars

(* The executor called on its own: any list of actions, one of them of a   *)
(* type the executor does not know, run on a stored session's state        *)
ActionTypes == {"upsert_ticket", "notify_staff", "handoff_if_needed", "close_ticket"}

MaxActions == 2

RECURSIVE ActionLists(_)
ActionLists(n) ==
    IF n = 0 THEN {<<>>}
    ELSE LET shorter == ActionLists(n - 1)
         IN  shorter \cup {Append(l, Action(t)) : l \in shorter, t \in ActionTypes}

\* runner.run_actions(session_id, state, actions), its results handed back
submit(session_id, actions, uuid) ==
    \E run \in {run_actions(TICKETS, heap, session_id, SESSIONS[session_id], actions,
                            uuid, clock)} :
        /\ TICKETS' = run.tickets
        /\ submitted' = actions
        /\ response' = [session_id |-> session_id, raised |-> FALSE, reply_text |-> NoReply,
                        actions_executed |-> run.executed, ticket_id |-> None]
        /\ UNCHANGED <<heap, SESSIONS, clock, threads, history>>

MaxExecutorTurns == 1

ExecutorUtterances == {U_hours, U_urgent, U_name}

ExecutorTurn ==
    /\ Turns < MaxExecutorTurns
    /\ \E user_message \in ExecutorUtterances, uuid \in uuid4 :
          chat("s1", user_message, <<>>, uuid)

Submit ==
    \E session_id \in DOMAIN SESSIONS, actions \in ActionLists(MaxActions), uuid \in uuid4 :
        submit(session_id, actions, uuid)

ExecutorNext == ExecutorTurn \/ Submit

SpecExecutor == Init /\ [][ExecutorNext]_vars

(* A single caller whose utterances carry keywords of several categories   *)
MaxClassifierTurns == 2

ClassifierUtterances ==
    {U_hello, U_pain, U_price, U_implant_cost, U_book_hours, U_antibiotic_booking_price,
     U_urgent_implant_cost, U_insurance_cost, U_offer_price, U_hours_insured}

ClassifierTurn ==
    /\ Turns < MaxClassifierTurns
    /\ \E user_message \in ClassifierUtterances, uuid \in uuid4 :
          chat("s1", user_message, <<>>, uuid)

SpecClassifier == Init /\ [][ClassifierTurn]_vars

(* A single caller whose conversation wanders over every intent, stored    *)
(* state only                                                              *)
MaxDialogueTurns == 3

DialogueUtterances ==
    {U_blank, U_name, U_phone, U_time, U_book, U_hours, U_hours_today, U_urgent,
     U_I_AM_URGENT, U_antibiotic, U_price, U_implant_cost, U_insurance, U_services}

DialogueTurn ==
    /\ Turns < MaxDialogueTurns
    /\ \E user_message \in DialogueUtterances, uuid \in uuid4 :
          chat("s1", user_message, <<>>, uuid)

SpecDialogue == Init /\ [][DialogueTurn]_vars

(* ---------------------------------------------------------------------- *)
(* Calls of chat for different sessions served by concurrent workers.  A   *)
(* call is taken in five steps: the state load with the processing of the  *)
(* utterance on the loaded state, then the ticket lookup, the id minting   *)
(* and the ticket write of upsert_ticket, then the state save.             *)
(* ---------------------------------------------------------------------- *)
\* chat up to plan_actions: get_or_init_state and every in-place write to the
\* state it gave
load(session_id, user_message) ==
    \E g \in {get_or_init_state(session_id, <<>>)}, msg \in {strip(user_message)} :
    \E h1 \in {IF msg # <<>>
               THEN [g.heap EXCEPT ![g.state.details].details = Append(@, msg)]
               ELSE g.heap} :
    \E s1 \in {nlu_update(g.state, NLU[msg])} :
    \E s2 \in {[s1 EXCEPT !.topic = infer_topic(s1)]} :
    \E upd \in {update_collected_from_text(h1[s2.collected].collected, msg)} :
        /\ threads[session_id].pc \in {"idle", "done"}
        /\ history' = [history EXCEPT ![session_id] = Append(@, user_message)]
        /\ UNCHANGED <<clock, TICKETS>>
        /\ IF upd.raised
           THEN /\ heap' = h1
                /\ SESSIONS' = IF g.stored THEN [SESSIONS EXCEPT ![session_id] = s2]
                               ELSE SESSIONS
                /\ submitted' = <<>>
                /\ response' = [session_id |-> session_id, raised |-> TRUE,
                                reply_text |-> NoReply, actions_executed |-> <<>>,
                                ticket_id |-> None]
                /\ threads' = [threads EXCEPT ![session_id] = [Idle EXCEPT !.pc = "done"]]
           ELSE \E h2 \in {[h1 EXCEPT ![s2.collected].collected = upd.collected]} :
                \E nr \in {next_reply(s2, h2)} :
                \E s3 \in {[s2 EXCEPT !.step = nr.step]} :
                    /\ heap' = h2
                    /\ SESSIONS' = IF g.stored THEN [SESSIONS EXCEPT ![session_id] = s3]
                                   ELSE SESSIONS
                    /\ threads' = [threads EXCEPT ![session_id] =
                                      [Idle EXCEPT !.pc = "loaded", !.state = s3,
                                                   !.reply_text = nr.reply,
                                                   !.planned_actions = plan_actions(s3, h2)]]
                    /\ UNCHANGED <<response, submitted>>

\* whether the call of session_id is to run upsert_ticket
upsert_planned(session_id) ==
    \E i \in 1..Len(threads[session_id].planned_actions) :
        threads[session_id].planned_actions[i].type = "upsert_ticket"

\* upsert_ticket, the loop over TICKETS
lookup(session_id) ==
    /\ threads[session_id].pc = "loaded"
    /\ upsert_planned(session_id)
    /\ threads' = [threads EXCEPT ![session_id].pc = "looked",
                                  ![session_id].existing =
                                      existing_ticket(TICKETS, session_id)]
    /\ UNCHANGED <<heap, SESSIONS, TICKETS, clock, response, submitted, history>>

\* upsert_ticket, ticket_id = existing or str(uuid.uuid4())[:8]
mint(session_id, uuid) ==
    /\ threads[session_id].pc = "looked"
    /\ \A other \in Sessions : threads[other].ticket_id # uuid
    /\ threads' = [threads EXCEPT ![session_id].pc = "minted",
                                  ![session_id].ticket_id =
                                      IF threads[session_id].existing # None
                                      THEN threads[session_id].existing ELSE uuid]
    /\ UNCHANGED <<heap, SESSIONS, TICKETS, clock, response, submitted, history>>

\* upsert_ticket, the ticket dict and TICKETS[ticket_id] = ticket
write(session_id) ==
    /\ threads[session_id].pc = "minted"
    /\ TICKETS' = PutTicket(TICKETS, ticket_of(TICKETS, heap, session_id,
                                               threads[session_id].state,
                                               threads[session_id].ticket_id, clock))
    /\ threads' = [threads EXCEPT ![session_id].pc = "written"]
    /\ UNCHANGED <<heap, SESSIONS, clock, response, submitted, history>>

\* the rest of run_actions, the ticket_id passes, save_state and the return
save(session_id) ==
    /\ \/ threads[session_id].pc = "written"
       \/ threads[session_id].pc = "loaded" /\ ~upsert_planned(session_id)
    /\ \E run \in {run_actions(TICKETS, heap, session_id, threads[session_id].state,
                               threads[session_id].planned_actions,
                               threads[session_id].ticket_id, clock)} :
       \E ticket_id \in {pull_ticket_id(run.executed)} :
          /\ SESSIONS' = save_state(session_id, threads[session_id].state)
          /\ submitted' = threads[session_id].planned_actions
          /\ response' = [session_id |-> session_id, raised |-> FALSE,
                          reply_text |-> threads[session_id].reply_text,
                          actions_executed |-> attach_ticket_id(run.executed, ticket_id),
                          ticket_id |-> ticket_id]
    /\ threads' = [threads EXCEPT ![session_id] = [Idle EXCEPT !.pc = "done"]]
    /\ UNCHANGED <<heap, TICKETS, clock, history>>

MaxConcurrentTurns == 1

ConcurrentUtterances == {U_blank, U_name, U_reach, U_hours, U_urgent}

Load ==
    \E session_id \in Sessions, user_message \in ConcurrentUtterances :
        /\ Len(history[session_id]) < MaxConcurrentTurns
        /\ load(session_id, user_message)

Lookup == \E session_id \in Sessions : lookup(session_id)

Mint == \E session_id \in Sessions, uuid \in uuid4 : mint(session_id, uuid)

Write == \E session_id \in Sessions : write(session_id)

Save == \E session_id \in Sessions : save(session_id)

ConcurrentNext == Load \/ Lookup \/ Mint \/ Write \/ Save

SpecConcurrent == Init /\ [][ConcurrentNext]_vars

(* ---------------------------------------------------------------------- *)
(* What the properties read                                                *)
(* ---------------------------------------------------------------------- *)
\* the collected dict of a stored session
Collected(s) == heap[SESSIONS[s].collected].collected

\* a turn of session s is taken in this step
TurnOf(s) == history'[s] # history[s]

\* the session's state before its first turn counts as having no intent
IntentOf(sessions, s) == IF s \in DOMAIN sessions THEN sessions[s].intent ELSE None

ProcedureOf(sessions, s) == IF s \in DOMAIN sessions THEN sessions[s].procedure ELSE None

\* the stored conversation state of s, nested objects by value, timestamps aside
StateView(sessions, h, s) ==
    IF s \in DOMAIN sessions
    THEN <<[step |-> sessions[s].step, intent |-> sessions[s].intent,
            procedure |-> sessions[s].procedure,
            details |-> h[sessions[s].details].details,
            collected |-> h[sessions[s].collected].collected]>>
    ELSE <<>>

\* the tickets of s, the contact by value
TicketsView(tickets, h, s) ==
    LET mine == SelectSeq(tickets, LAMBDA t : t.session_id = s)
    IN  [i \in 1..Len(mine) |-> [mine[i] EXCEPT !.contact = h[@].collected]]

MissingSlots(c) == SelectSeq(Slots, LAMBDA k : ~Truthy(c[k]))

AskFor(slot) ==
    Reply(CASE slot = "name" -> "what is your name"
            [] slot = "phone" -> "best phone number"
            [] slot = "best_time" -> "best time to call")

Ran(type) ==
    \E i \in 1..Len(response.actions_executed) : response.actions_executed[i].type = type

(* ---------------------------------------------------------------------- *)
(* Properties                                                              *)
(* ---------------------------------------------------------------------- *)

\* C1: a session whose turns are, in order, a booking utterance, the name, the
\* phone and the best time is at step READY_TO_HANDOFF after the last of them.
C1_BookingEndsReady ==
    \A s \in Sessions :
        history[s] = <<U_book, U_name, U_phone, U_time>>
            => SESSIONS[s].step = "READY_TO_HANDOFF"

\* C2: after a turn that leaves the intent BOOK_APPOINTMENT, whatever the step
\* before it: with a slot missing the step is COLLECT_CONTACT and the reply asks
\* for the first missing slot; with none missing the step is READY_TO_HANDOFF
\* and the reply is the confirmation.
C2_BookingStepAndReply ==
    LET s == response.session_id
        missing == MissingSlots(Collected(s))
    IN  (s # None /\ ~response.raised /\ SESSIONS[s].intent = "BOOK_APPOINTMENT")
            => IF missing # <<>>
               THEN /\ SESSIONS[s].step = "COLLECT_CONTACT"
                    /\ response.reply_text = AskFor(missing[1])
               ELSE /\ SESSIONS[s].step = "READY_TO_HANDOFF"
                    /\ response.reply_text = Reply("pass this to the team")

\* C3: when no caller has ever sent a prior_state, a turn of session a leaves
\* the stored state and the ticket of every other session b as they were.
C3_OtherSessionsUntouched ==
    [][\A a \in Sessions, b \in Sessions :
          (a # b /\ TurnOf(a) /\ Len(heap') = 1)
              => /\ StateView(SESSIONS', heap', b) = StateView(SESSIONS, heap, b)
                 /\ TicketsView(TICKETS', heap', b) = TicketsView(TICKETS, heap, b)]_vars

\* C4: a session with no stored state and no prior_state starts from a fresh
\* state: TRIAGE, no intent, no procedure, no details, no contact slot set,
\* whatever the turns of other sessions before.
C4_FreshStateIsPristine ==
    \A s \in Sessions \ DOMAIN SESSIONS :
        LET g == get_or_init_state(s, <<>>)
        IN  /\ g.state.step = "TRIAGE"
            /\ g.state.intent = None
            /\ g.state.procedure = None
            /\ g.heap[g.state.details].details = <<>>
            /\ g.heap[g.state.collected].collected = EmptyCollected

\* C5: in a turn where upsert_ticket ran successfully and notify_staff ran,
\* every notify_staff result carries the ticket_id of the upsert_ticket result.
C5_NotifyCarriesTicketId ==
    LET ex == response.actions_executed
    IN  \A i \in 1..Len(ex), j \in 1..Len(ex) :
            (ex[i].type = "upsert_ticket" /\ ex[i].ok /\ ex[j].type = "notify_staff")
                => /\ "ticket_id" \in DOMAIN ex[j].data
                   /\ ex[j].data.ticket_id = ex[i].data.ticket_id

\* C6: the store never holds two tickets of one session, and a turn that runs
\* upsert_ticket for a session that has a ticket returns that ticket's id and
\* leaves its created_at as it was.
C6_OneTicketPerSession ==
    [][\A s \in Sessions :
          LET old == SelectSeq(TICKETS, LAMBDA t : t.session_id = s)
              new == SelectSeq(TICKETS', LAMBDA t : t.session_id = s)
          IN  /\ Len(new) <= 1
              /\ (TurnOf(s) /\ Len(old) = 1 /\ response'.ticket_id # None)
                    => /\ response'.ticket_id = old[1].ticket_id
                       /\ Len(new) = 1
                       /\ new[1].ticket_id = old[1].ticket_id
                       /\ new[1].created_at = old[1].created_at]_vars

\* C6 witness: a ticket written again, a second after it was created
C6_Witness ==
    \E i \in 1..Len(TICKETS) :
        /\ TICKETS[i].created_at < TICKETS[i].updated_at
        /\ Len(history[TICKETS[i].session_id]) >= 2
        /\ response.ticket_id = TICKETS[i].ticket_id

\* C7: a contact slot that holds a value keeps it through every later turn of
\* its conversation, whatever the utterance.
C7_SlotsNeverOverwritten ==
    [][\A s \in Sessions :
          (TurnOf(s) /\ s \in DOMAIN SESSIONS /\ s \in DOMAIN SESSIONS')
              => \A k \in {"name", "phone", "best_time"} :
                    Collected(s)[k] # <<>>
                        => heap'[SESSIONS'[s].collected].collected[k] = Collected(s)[k]]_vars

\* C7 witness: a name, a phone and a best time are held, and the conversation's
\* last turn offered another one
C7_Witness ==
    \E s \in DOMAIN SESSIONS :
        \/ /\ history[s] = <<U_name, U_name2>>
           /\ Collected(s).name = <<SubSeq(U_name, 12, 14)>>
        \/ /\ history[s] = <<U_reach, U_reach2>>
           /\ Collected(s).phone = <<FilterChars(U_reach, Digits \cup {"+"})>>
           /\ Collected(s).best_time = <<U_reach>>

\* C8: a turn that detects no intent leaves the recorded intent as it was, one
\* that detects no procedure leaves the recorded procedure as it was, and no
\* turn takes a recorded intent or procedure back to None.
C8_NoDetectionKeepsIntent ==
    [][\A s \in Sessions :
          TurnOf(s) =>
              LET nlu == NLU[strip(history'[s][Len(history'[s])])]
              IN  /\ nlu.intent = None
                        => IntentOf(SESSIONS', s) = IntentOf(SESSIONS, s)
                  /\ nlu.procedure = None
                        => ProcedureOf(SESSIONS', s) = ProcedureOf(SESSIONS, s)
                  /\ IntentOf(SESSIONS, s) # None => IntentOf(SESSIONS', s) # None
                  /\ ProcedureOf(SESSIONS, s) # None => ProcedureOf(SESSIONS', s) # None]_vars

\* C8 witness: an intent and a procedure recorded by one turn are still there
\* after a turn that detected neither
C8_Witness ==
    \E s \in DOMAIN SESSIONS :
        /\ history[s] = <<U_implant_cost, U_name>>
        /\ SESSIONS[s].intent = "PRICING"
        /\ SESSIONS[s].procedure = "implant"

\* C9: every turn completes and returns a state, a reply and a result list;
\* no exception escapes.
C9_NoExceptionEscapes == ~response.raised

\* C10: a turn that leaves the intent OPENING_HOURS runs no upsert_ticket and
\* answers with the hours; a session whose only turn asked for the hours has
\* no ticket.
C10_OpeningHoursNoTicket ==
    /\ LET s == response.session_id
       IN  (s # None /\ ~response.raised /\ SESSIONS[s].intent = "OPENING_HOURS")
               => /\ ~Ran("upsert_ticket")
                  /\ response.reply_text = Reply("opening hours")
    /\ \A s \in Sessions :
          (Len(history[s]) = 1 /\ NLU[strip(history[s][1])].intent = "OPENING_HOURS")
              => \A i \in 1..Len(TICKETS) : TICKETS[i].session_id # s

\* C10 witness: a session's only turn asked for the hours and got them, while
\* the other session has a ticket
C10_Witness ==
    \E s \in Sessions :
        /\ history[s] = <<U_hours>>
        /\ response.session_id = s
        /\ response.reply_text = Reply("opening hours")
        /\ \E i \in 1..Len(TICKETS) : TICKETS[i].session_id # s

\* C11: a turn runs upsert_ticket exactly when the intent it leaves is not
\* OPENING_HOURS and the conversation is meaningful (an intent, a procedure, a
\* topic other than the default "General inquiry", or a detail) or a contact
\* slot is filled; a session whose only turn was an empty utterance has no
\* ticket.
C11_TicketOnlyWhenMeaningful ==
    /\ LET s == response.session_id
       IN  (s # None /\ ~response.raised)
               => (Ran("upsert_ticket")
                     <=> /\ SESSIONS[s].intent # "OPENING_HOURS"
                         /\ \/ SESSIONS[s].intent # None
                            \/ SESSIONS[s].procedure # None
                            \/ SESSIONS[s].topic # "General inquiry"
                            \/ heap[SESSIONS[s].details].details # <<>>
                            \/ \E k \in {"name", "phone", "best_time"} :
                                  Truthy(Collected(s)[k]))
    /\ \A s \in Sessions :
          history[s] = <<U_blank>> => \A i \in 1..Len(TICKETS) : TICKETS[i].session_id # s

\* C12: the actions a turn runs are, in this order: upsert_ticket when one is
\* written, then notify_staff and handoff_if_needed when the intent is
\* EMERGENCY or MEDICAL_ADVICE, then one more notify_staff when the step is
\* READY_TO_HANDOFF; upsert_ticket comes before every notify_staff, and a turn
\* that leaves the intent EMERGENCY runs notify_staff twice and
\* handoff_if_needed once.
C12_ActionOrder ==
    LET s == response.session_id
        ex == response.actions_executed
        types == [i \in 1..Len(ex) |-> ex[i].type]
        escalation == IF types # <<>> /\ types[1] = "upsert_ticket" THEN Tail(types) ELSE types
    IN  (s # None /\ ~response.raised)
            => /\ escalation =
                    (IF SESSIONS[s].intent \in {"EMERGENCY", "MEDICAL_ADVICE"}
                     THEN <<"notify_staff", "handoff_if_needed">> ELSE <<>>)
                    \o (IF SESSIONS[s].step = "READY_TO_HANDOFF"
                        THEN <<"notify_staff">> ELSE <<>>)
               /\ SESSIONS[s].intent = "EMERGENCY"
                    => types = <<"upsert_ticket", "notify_staff", "handoff_if_needed",
                                 "notify_staff">>

\* C12 witness: an urgent turn after a request for medical advice ran the
\* ticket write, the escalation and the hand-off notification
C12_Witness ==
    /\ history["s1"] = <<U_antibiotic, U_urgent>>
    /\ Len(response.actions_executed) = 4
    /\ response.actions_executed[1].type = "upsert_ticket"
    /\ response.actions_executed[4].type = "notify_staff"

\* C13: the executor gives one result per submitted action, in the order
\* submitted; an action of a type it does not know gives ok = FALSE and an
\* error that names the type; every other action of the list is carried out
\* as usual, the ticket write included.
C13_ExecutorResults ==
    LET s == response.session_id
        ex == response.actions_executed
    IN  /\ Len(ex) = Len(submitted)
        /\ \A i \in 1..Len(submitted) :
              /\ ex[i].type = submitted[i].type
              /\ CASE submitted[i].type = "upsert_ticket" ->
                        /\ ex[i].ok
                        /\ \E j \in 1..Len(TICKETS) :
                              /\ TICKETS[j].session_id = s
                              /\ TICKETS[j].ticket_id = ex[i].data.ticket_id
                   [] submitted[i].type = "notify_staff" ->
                        ex[i].ok /\ ex[i].data.notified
                   [] submitted[i].type = "handoff_if_needed" ->
                        ex[i].ok /\ ex[i].data.handoff_checked
                   [] OTHER ->
                        /\ ~ex[i].ok
                        /\ ex[i].data =
                              [error |-> "Unknown action type: " \o submitted[i].type]

\* C13 witness: a session without a ticket submitted an unknown action followed
\* by a ticket write; the first failed, the ticket exists
C13_Witness ==
    LET ex == response.actions_executed
    IN  /\ history["s1"] = <<U_hours>>
        /\ response.session_id = "s1"
        /\ submitted = <<Action("close_ticket"), Action("upsert_ticket")>>
        /\ Len(ex) = 2
        /\ ex[1].type = "close_ticket" /\ ~ex[1].ok
        /\ ex[2].type = "upsert_ticket" /\ ex[2].ok
        /\ \E j \in 1..Len(TICKETS) : TICKETS[j].session_id = "s1"

\* C14: the stored topic of every session is the label that the first matching
\* row of the table gives for its stored intent and procedure: OPENING_HOURS
\* "Opening hours", BOOK_APPOINTMENT "Appointment booking", PRICING with a
\* procedure the procedure's pricing label, INSURANCE with a procedure the
\* procedure's coverage label, INSURANCE alone "Insurance question", EMERGENCY,
\* MEDICAL_ADVICE and SERVICES their labels, anything else "General inquiry".
C14_TopicTable ==
    \A s \in DOMAIN SESSIONS :
        LET intent == SESSIONS[s].intent
            proc == SESSIONS[s].procedure
        IN  SESSIONS[s].topic =
                CASE intent = "OPENING_HOURS" -> "Opening hours"
                  [] intent = "BOOK_APPOINTMENT" -> "Appointment booking"
                  [] intent = "PRICING" /\ proc # None -> Title[proc] \o " pricing"
                  [] intent = "INSURANCE" /\ proc # None ->
                        "Insurance coverage for " \o Title[proc]
                  [] intent = "INSURANCE" /\ proc = None -> "Insurance question"
                  [] intent = "EMERGENCY" -> "Emergency / urgent issue"
                  [] intent = "MEDICAL_ADVICE" -> "Medical advice request (needs clinician)"
                  [] intent = "SERVICES" -> "Services inquiry"
                  [] OTHER -> "General inquiry"

\* the categories in the order the claim ranks them, and their keywords
IntentOrder ==
    <<"MEDICAL_ADVICE", "EMERGENCY", "BOOK_APPOINTMENT", "OPENING_HOURS", "INSURANCE",
      "PRICING", "SERVICES">>

KeywordsOf ==
    [MEDICAL_ADVICE |-> KW_MEDICAL_ADVICE, EMERGENCY |-> KW_EMERGENCY,
     BOOK_APPOINTMENT |-> KW_BOOK_APPOINTMENT, OPENING_HOURS |-> KW_OPENING_HOURS,
     INSURANCE |-> KW_INSURANCE, PRICING |-> KW_PRICING, SERVICES |-> KW_SERVICES]

\* per utterance, the ranks of the categories of which a keyword occurs in it
Matched ==
    [u \in ClassifierUtterances |->
        {i \in 1..Len(IntentOrder) : AnyIn(KeywordsOf[IntentOrder[i]], lower(u))}]

\* C15: the intent a turn detects is the category ranked first among those of
\* which a keyword occurs in the utterance, and none when there is no such
\* category; an utterance with an antibiotic keyword is MEDICAL_ADVICE whatever
\* else it holds; two utterances with the same categories get the same intent
\* whatever their procedure keywords.
C15_FirstMatchWins ==
    /\ \A s \in DOMAIN SESSIONS :
          (response.session_id = s /\ ~response.raised
              /\ history[s][Len(history[s])] \in ClassifierUtterances)
              => LET u == history[s][Len(history[s])]
                     first == CHOOSE i \in Matched[u] : \A j \in Matched[u] : i <= j
                 IN  /\ Matched[u] # {} => SESSIONS[s].intent = IntentOrder[first]
                     /\ (Matched[u] = {} /\ Len(history[s]) = 1) => SESSIONS[s].intent = None
                     /\ AnyIn(KW_MEDICAL_ADVICE, lower(u))
                            => SESSIONS[s].intent = "MEDICAL_ADVICE"
    /\ \A u \in ClassifierUtterances, v \in ClassifierUtterances :
          Matched[u] = Matched[v] => NLU[strip(u)].intent = NLU[strip(v)].intent

\* C15 witness: an utterance with booking and opening-hours keywords was taken
\* as a booking, and the next one, with antibiotic, booking and pricing
\* keywords, as a request for medical advice
C15_Witness ==
    /\ history["s1"] = <<U_book_hours, U_antibiotic_booking_price>>
    /\ Matched[U_book_hours] = {3, 4}
    /\ Matched[U_antibiotic_booking_price] = {1, 3, 6}
    /\ SESSIONS["s1"].intent = "MEDICAL_ADVICE"

\* C16: a turn that starts at step COLLECT_CONTACT or READY_TO_HANDOFF and
\* whose utterance matches no intent rule is answered, whatever intent is on
\* record, with the question for the first missing slot (name, phone,
\* best_time); when the turn leaves no slot missing it ends at step
\* READY_TO_HANDOFF with the confirmation.
C16_SlotGapAfterNoIntent ==
    [][\A s \in Sessions :
          (/\ TurnOf(s)
           /\ s \in DOMAIN SESSIONS
           /\ SESSIONS[s].step \in {"COLLECT_CONTACT", "READY_TO_HANDOFF"}
           /\ NLU[strip(history'[s][Len(history'[s])])].intent = None
           /\ ~response'.raised)
              => LET missing == MissingSlots(heap'[SESSIONS'[s].collected].collected)
                 IN  IF missing # <<>>
                     THEN response'.reply_text = AskFor(missing[1])
                     ELSE /\ SESSIONS'[s].step = "READY_TO_HANDOFF"
                          /\ response'.reply_text = Reply("pass this to the team")]_vars

\* C17: a session at step READY_TO_HANDOFF whose recorded intent is not
\* EMERGENCY has its name, phone and best time, so no hand-off notification
\* goes out for a conversation without emergency that lacks a contact slot.
C17_ReadyHasContact ==
    \A s \in DOMAIN SESSIONS :
        (SESSIONS[s].step = "READY_TO_HANDOFF" /\ SESSIONS[s].intent # "EMERGENCY")
            => MissingSlots(Collected(s)) = <<>>

\* C18: the ticket of a session, its contact included, changes only in a turn
\* of that session that runs upsert_ticket; a turn that runs none (the intent
\* on record is OPENING_HOURS) leaves every field of the ticket as it was, even
\* when it fills a contact slot.
C18_TicketChangesOnlyOnUpsert ==
    [][\A s \in Sessions :
          TicketsView(TICKETS', heap', s) # TicketsView(TICKETS, heap, s)
              => /\ TurnOf(s)
                 /\ response'.session_id = s
                 /\ \E i \in 1..Len(response'.actions_executed) :
                       /\ response'.actions_executed[i].type = "upsert_ticket"
                       /\ response'.actions_executed[i].ok]_vars

\* C19: a stored session is at step LIMITED_RESPONSE only if its recorded
\* intent is MEDICAL_ADVICE, it is never at step RESOLVED, and every ticket in
\* the store has status "open".
C19_LimitedOnlyForMedicalAdvice ==
    /\ \A s \in DOMAIN SESSIONS :
          /\ SESSIONS[s].step = "LIMITED_RESPONSE" => SESSIONS[s].intent = "MEDICAL_ADVICE"
          /\ SESSIONS[s].step # "RESOLVED"
    /\ \A i \in 1..Len(TICKETS) : TICKETS[i].status = "open"

\* what a session's first turn leaves when no other session is served: the
\* conversation state, the actions planned and the ticket, nested objects by
\* value
Alone(user_message) ==
    LET msg == strip(user_message)
        h == <<[details |-> IF msg # <<>> THEN <<msg>> ELSE <<>>,
                collected |-> update_collected_from_text(EmptyCollected, msg).collected]>>
        s1 == nlu_update(DEFAULT_STATE, NLU[msg])
        s2 == [s1 EXCEPT !.topic = infer_topic(s1)]
        s3 == [s2 EXCEPT !.step = next_reply(s2, h).step]
        planned == plan_actions(s3, h)
    IN  [state |-> [step |-> s3.step, intent |-> s3.intent, procedure |-> s3.procedure,
                    details |-> h[1].details, collected |-> h[1].collected],
         tickets |-> IF \E i \in 1..Len(planned) : planned[i].type = "upsert_ticket"
                     THEN <<[intent |-> s3.intent, procedure |-> s3.procedure,
                             topic |-> s3.topic, summary |-> build_summary(s3, h),
                             contact |-> h[1].collected,
                             conversation_facts |-> h[1].details, status |-> "open"]>>
                     ELSE <<>>]

\* C20: when the first turns of the two sessions, served concurrently, have
\* both returned, neither has raised and the stores hold for each session the
\* conversation state and the one ticket (or none) that its turn leaves when
\* it is served alone.
C20_ConcurrentTurnsAsAlone ==
    (\A s \in Sessions : threads[s].pc = "done" /\ Len(history[s]) = 1)
        => \A s \in Sessions :
              LET mine == TicketsView(TICKETS, heap, s)
              IN  /\ s \in DOMAIN SESSIONS
                  /\ StateView(SESSIONS, heap, s) = <<Alone(history[s][1]).state>>
                  /\ [i \in 1..Len(mine) |->
                         [intent |-> mine[i].intent, procedure |-> mine[i].procedure,
                          topic |-> mine[i].topic, summary |-> mine[i].summary,
                          contact |-> mine[i].contact,
                          conversation_facts |-> mine[i].conversation_facts,
                          status |-> mine[i].status]]
                       = Alone(history[s][1]).tickets

\* C21: after a turn of a session, when the recorded intent is not
\* BOOK_APPOINTMENT, the stored step is a function of the recorded intent and
\* procedure alone: TRIAGE for OPENING_HOURS, INSURANCE and SERVICES,
\* LIMITED_RESPONSE for MEDICAL_ADVICE, READY_TO_HANDOFF for EMERGENCY, for
\* PRICING TRIAGE without a procedure and COLLECT_CONTACT with one; with no
\* recorded intent and a step before the turn that is neither COLLECT_CONTACT
\* nor READY_TO_HANDOFF, the step is TRIAGE and the reply the generic prompt.
C21_StepFromIntentAndProcedure ==
    [][\A s \in Sessions :
          (TurnOf(s) /\ s \in DOMAIN SESSIONS')
              => LET intent == SESSIONS'[s].intent
                     proc == SESSIONS'[s].procedure
                     step == SESSIONS'[s].step
                     before == IF s \in DOMAIN SESSIONS THEN SESSIONS[s].step ELSE "TRIAGE"
                 IN  /\ intent \in {"OPENING_HOURS", "INSURANCE", "SERVICES"} => step = "TRIAGE"
                     /\ intent = "MEDICAL_ADVICE" => step = "LIMITED_RESPONSE"
                     /\ intent = "EMERGENCY" => step = "READY_TO_HANDOFF"
                     /\ (intent = "PRICING" /\ proc = None) => step = "TRIAGE"
                     /\ (intent = "PRICING" /\ proc # None) => step = "COLLECT_CONTACT"
                     /\ (intent = None /\ before \notin {"COLLECT_CONTACT", "READY_TO_HANDOFF"})
                            => /\ step = "TRIAGE"
                               /\ response'.reply_text = Reply("how can I help")]_vars
====
